---------------------------- MODULE Spec2Model ----------------------------
(***************************************************************************)
(* Requirements-elicitation assistant (krishnakanthpps/sp01).              *)
(*                                                                         *)
(* Five entry points share one workflow: agent.py (single shot),           *)
(* agent2.py (analysis, completeness check, follow-up questions, optional  *)
(* refinement), agent3.py (gap analysis, questions, generation, optional   *)
(* save) and the Flask applications app.py / app3.py, whose pages carry a  *)
(* browser client (free-text answers in app.py, choice inputs in app3.py). *)
(* One run of the model is one process (console), one page load (browser)  *)
(* or one HTTP client posting to the Flask routes directly; the variable   *)
(* surface says which.                                                     *)
(***************************************************************************)
EXTENDS Integers, Sequences, FiniteSets, TLC

VARIABLES
    surface,       \* which program runs
    pc,            \* position of the console program / of the page's async handler
    prompt,        \* initial_prompt, user_prompt (console) / currentPrompt (browser)
    analysis,      \* analysis (agent3), requirements (agent2) / currentAnalysis
    answers,       \* the answers dict being built (console) / last collected (browser)
    requirements,  \* requirements, refined_requirements / currentRequirements
    aux,           \* agent2: assessment and questions documents; loop index
    dom,           \* browser: the page's elements (visibility, rendered content)
    form,          \* the answers the user gave: typed lines / state of the inputs
    fetch,         \* browser: the POST in flight to the Flask server, or Null
    response,      \* browser: the Flask response not yet consumed, or Null
    wire,          \* number of completion requests sent; the latest exchange
                   \* (request, reply, client result) until its caller resumes
    shown,         \* what the running handler last told the user (output, alert), or Null
    file           \* agent3: the saved file / browser: the downloaded file, or Null

vars == <<surface, pc, prompt, analysis, answers, requirements, aux, dom, form,
          fetch, response, wire, shown, file>>

---------------------------------------------------------------------------
(* Bounds *)

\* Longest question batch the backend stub returns.
MaxQuestions == 2
\* Number of POSTs one page load may issue (each retry is a new click).
MaxFetches == 3

---------------------------------------------------------------------------
(* Values *)

Null == [null |-> TRUE]

Surfaces == {"agent", "agent2", "agent3", "app", "app3", "http"}
Browser == {"app", "app3"}
\* Web == the surfaces that talk to the Flask routes.
Web == Browser \cup {"http"}

\* Descriptions as typed: sequences of characters, some with blanks around.
\* The words are interchangeable, so the first description a run submits
\* is built on "a" and only a later one may differ from it.
FirstDescriptions == { <<>>, <<" ">>, <<"a">>, <<" ", "a">> }
Descriptions == FirstDescriptions \cup { <<"b", " ">> }

RECURSIVE LStrip(_)
LStrip(s) == IF s # <<>> /\ Head(s) = " " THEN LStrip(Tail(s)) ELSE s

RECURSIVE RStrip(_)
RStrip(s) == IF s # <<>> /\ s[Len(s)] = " " THEN RStrip(SubSeq(s, 1, Len(s) - 1)) ELSE s

\* String.prototype.trim
Trim(s) == RStrip(LStrip(s))

\* Answers as typed into input() or a textarea.
AnswerTexts == { <<>>, <<" ">>, <<"x">> }

(* An insertion-ordered mapping (Python dict, JavaScript object with string *)
(* keys): a sequence of entries with pairwise distinct keys.                *)
EmptyDict == <<>>

Keys(d) == { d[i].key : i \in 1..Len(d) }

HasKey(d, k) == k \in Keys(d)

Lookup(d, k) == d[CHOOSE i \in 1..Len(d) : d[i].key = k].value

\* d[k] = v: an existing key keeps its position, a new one is appended.
DictSet(d, k, v) ==
    IF HasKey(d, k)
    THEN [i \in 1..Len(d) |-> IF d[i].key = k THEN [key |-> k, value |-> v] ELSE d[i]]
    ELSE Append(d, [key |-> k, value |-> v])

---------------------------------------------------------------------------
(* The backend's replies *)

StatusOK == 200

\* Message contents: parseable JSON text holding a document, or other text.
JsonText(doc) == [parses |-> TRUE, value |-> doc]
PlainText(t) == [parses |-> FALSE, value |-> [text |-> t]]

\* The question category the prompt schema asks for, per position.
CategoryOf(i) == IF i % 2 = 1 THEN "purpose" ELSE "features"

\* Question ids the backend may use for the i-th question: its own or, for
\* the second question, that of the first (ids are opaque, so a batch is
\* named up to renaming; one repeated id is the case the code can tell).
QuestionIds(i) == { <<"q", j>> : j \in IF i = 2 THEN {1, 2} ELSE {i} }

\* critical_level values the backend may give the i-th question.  The
\* prompt asks for 1-5, highest first; the stub also returns a batch whose
\* levels rise (3 then 5) and one whose levels fall (3 then 1).
CriticalLevels(i) == IF i = 1 THEN {3} ELSE {1, 5}

\* The critical_level of every choice question of the stub (app3.py).
ChoiceLevel == 3

\* A free-text question (agent3.py, app.py schema).
TextQuestion(i, id, level) ==
    [id |-> id, question |-> <<"Q", i>>, category |-> CategoryOf(i),
     critical_level |-> level, input_type |-> "none", options |-> <<>>]

\* Shapes of option lists the stub returns for a choice question (app3.py
\* schema): per option its id and whether it is marked default.
NoOptions == <<>>
TwoOptions == << [id |-> "o1", default |-> FALSE], [id |-> "o2", default |-> FALSE] >>
SecondDefault == << [id |-> "o1", default |-> FALSE], [id |-> "o2", default |-> TRUE] >>
SameOptionIds == << [id |-> "o1", default |-> TRUE], [id |-> "o1", default |-> FALSE] >>

\* The kinds of choice question the stub returns: the three input types the
\* prompt names, with and without defaults, with repeated option ids, with
\* no options, and one input type the prompt does not name.
ChoiceKinds ==
    { <<"radio", TwoOptions>>, <<"radio", SecondDefault>>,
      <<"checkbox", SecondDefault>>, <<"checkbox", SameOptionIds>>,
      <<"dropdown", TwoOptions>>, <<"dropdown", NoOptions>>,
      <<"text", NoOptions>> }

\* Option texts are pairwise distinct over the whole batch.
OptionsOf(qi, shape) ==
    [oi \in 1..Len(shape) |->
        [id |-> shape[oi].id, text |-> <<"T", qi, oi>>, default |-> shape[oi].default]]

ChoiceQuestions(i) ==
    { [id |-> id, question |-> <<"Q", i>>, category |-> CategoryOf(i),
       critical_level |-> ChoiceLevel,
       input_type |-> k[1], options |-> OptionsOf(i, k[2])] :
         id \in QuestionIds(i), k \in ChoiceKinds }

QuestionsAt(s, i) ==
    IF s = "app3" THEN ChoiceQuestions(i)
    ELSE { TextQuestion(i, id, level) :
             id \in QuestionIds(i), level \in CriticalLevels(i) }

RECURSIVE BatchesOfLen(_, _)
BatchesOfLen(s, n) ==
    IF n = 0 THEN { <<>> }
    ELSE { Append(b, q) : b \in BatchesOfLen(s, n - 1), q \in QuestionsAt(s, n) }

Batches(s) == UNION { BatchesOfLen(s, n) : n \in 0..MaxQuestions }

Understood == [purpose |-> "p", audience |-> Null, features |-> <<"f">>,
               design_preferences |-> Null]

AnalysisDocs(s) == { [understood |-> Understood, questions |-> b] : b \in Batches(s) }

\* The backend chooses the keys of its documents: one that also has a
\* member named error, as the page may be sent.
WithErrorMember(doc) ==
    [k \in DOMAIN doc \cup {"error"} |-> IF k = "error" THEN "e" ELSE doc[k]]

AnalysisDocsSent(s) ==
    AnalysisDocs(s) \cup
    (IF s \in Browser
     THEN { WithErrorMember([understood |-> Understood, questions |-> <<>>]) }
     ELSE {})

RequirementsDoc(n) == [website_summary |-> [name |-> n], pages |-> <<"home">>]

\* Documents are interchangeable: the first one a run receives is N1 and
\* only a later one may differ from it.
RequirementsDocs ==
    IF requirements = Null THEN { RequirementsDoc("N1") }
    ELSE { RequirementsDoc("N1"), RequirementsDoc("N2") }

RequirementsDocsSent ==
    RequirementsDocs \cup
    (IF surface \in Browser THEN { WithErrorMember(RequirementsDoc("N1")) } ELSE {})

FailureReplies ==
    { [status |-> 500, text |-> "boom", content |-> Null] }

SuccessReplies(docs) ==
    { [status |-> StatusOK, text |-> "body", content |-> c] :
        c \in { JsonText(d) : d \in docs } \cup { PlainText("prose") } }

Replies(docs) == FailureReplies \cup SuccessReplies(docs)

---------------------------------------------------------------------------
(* The completion client *)

\* api_key = os.getenv("AZURE_OPENAI_API_KEY"), read once at import.
ApiKey == "secret"

\* headers = {"Content-Type": "application/json", "api-key": api_key}
Headers ==
    [h \in {"Content-Type", "api-key"} |->
        IF h = "api-key" THEN ApiKey ELSE "application/json"]

Ok(v) == [ok |-> TRUE, value |-> v]
Raise(exc, msg) == [ok |-> FALSE, exc |-> exc, message |-> msg]

\* Variant of CallAzureOpenAI whose error tells the request's headers too.
CallAzureOpenAIWithHeaders(reply) ==
    IF reply.status = StatusOK
    THEN IF reply.content.parses
         THEN Ok(reply.content.value)
         ELSE Raise("JSONDecodeError", <<"Expecting value">>)
    ELSE Raise("Exception", <<"Error calling Azure OpenAI API: ", reply.text,
                              Headers["api-key"]>>)

\* Variant of CallAzureOpenAI that reports a failure without the body.
CallAzureOpenAINoBody(reply) ==
    IF reply.status = StatusOK
    THEN IF reply.content.parses
         THEN Ok(reply.content.value)
         ELSE Raise("JSONDecodeError", <<"Expecting value">>)
    ELSE Raise("Exception", <<"Error calling Azure OpenAI API">>)

\* Variant of CallAzureOpenAI that hands back unparseable content as it is.
CallAzureOpenAIRawOnBadJson(reply) ==
    IF reply.status = StatusOK
    THEN Ok(reply.content.value)
    ELSE Raise("Exception", <<"Error calling Azure OpenAI API: ", reply.text>>)

\* call_azure_openai (agent3.py, app.py, app3.py) and the same lines at the
\* end of each stage function of agent2.py: JSON mode.  The result of one
\* requests.post whose reply is reply.
CallAzureOpenAI(reply) ==
    IF reply.status = StatusOK
    THEN IF reply.content.parses
         THEN Ok(reply.content.value)
         ELSE Raise("JSONDecodeError", <<"Expecting value">>)
    ELSE Raise("Exception", <<"Error calling Azure OpenAI API: ", reply.text>>)

\* get_design_tasks (agent.py): free text, no parsing.
GetDesignTasks(reply) ==
    IF reply.status = StatusOK
    THEN Ok(reply.content)
    ELSE Raise("Exception", <<"Error calling Azure OpenAI API: ", reply.text>>)

\* The outbound request of one stage, as the backend sees it.
Outbound(stage, payload) ==
    [stage |-> stage, payload |-> payload, headers |-> Headers]

\* Variant of CombinedPrompt that carries the answers without the initial
\* request.
CombinedPromptAnswersOnly(initial_prompt, given) ==
    [description |-> <<>>, answers |-> given]

\* Variant of CombinedPrompt that strips the initial request.
CombinedPromptStripped(initial_prompt, given) ==
    [description |-> Trim(initial_prompt), answers |-> given]

\* create_comprehensive_requirements: the user message carries the initial
\* request as given and json.dumps(answers).
CombinedPrompt(initial_prompt, given) ==
    [description |-> initial_prompt, answers |-> given]

\* Variant of Posted that posts once more after a failure.
PostedWithRetry(req, reply, result) ==
    [sent |-> wire.sent + (IF result.ok THEN 1 ELSE 2), last |-> req,
     reply |-> reply, result |-> result]

\* The wire after one more requests.post.
Posted(req, reply, result) ==
    [sent |-> wire.sent + 1, last |-> req, reply |-> reply, result |-> result]

\* The wire once the page's handler has taken the response.
Consumed == [sent |-> wire.sent, last |-> Null, reply |-> Null, result |-> Null]

---------------------------------------------------------------------------
(* Initial state: a fresh process or a freshly loaded page *)

InitDom ==
    [step1 |-> TRUE, step2 |-> FALSE, step3 |-> FALSE,
     analyzeBtn |-> TRUE, analyzeLoader |-> FALSE,
     generateBtn |-> TRUE, generateLoader |-> FALSE,
     understood |-> Null, questions |-> <<>>, requirements |-> Null]

\* i: loop index; assessment, questions, refine: agent2's documents and the
\* user's reply to the refinement prompt; fetches: POSTs issued by the page
\* or the HTTP client; described: the description the request behind the
\* held analysis carried (history).
InitAux == [i |-> 0, assessment |-> Null, questions |-> Null, fetches |-> 0,
            described |-> <<>>, refine |-> ""]

Init ==
    /\ surface \in Surfaces
    /\ pc = IF surface \in Web THEN "idle" ELSE "input"
    /\ prompt = <<>>
    /\ analysis = Null
    /\ answers = EmptyDict
    /\ requirements = Null
    /\ aux = InitAux
    /\ dom = InitDom
    /\ form = <<>>
    /\ fetch = Null
    /\ response = Null
    /\ wire = [sent |-> 0, last |-> Null, reply |-> Null, result |-> Null]
    /\ shown = Null
    /\ file = Null

---------------------------------------------------------------------------
(* agent.py: single shot *)

\* user_prompt = input(...)
AgentReadDescription ==
    /\ surface = "agent" /\ pc = "input"
    /\ \E d \in FirstDescriptions : prompt' = d
    /\ pc' = "call"
    /\ UNCHANGED <<surface, analysis, answers, requirements, aux, dom, form,
                   fetch, response, wire, shown, file>>

\* try: tasks = get_design_tasks(user_prompt); print(tasks)
\* except Exception as e: print(e)
AgentCall ==
    /\ surface = "agent" /\ pc = "call"
    /\ \E reply \in Replies({}) :
         LET r == GetDesignTasks(reply) IN
         /\ wire' = Posted(Outbound("tasks", [description |-> prompt]), reply, r)
         /\ shown' = IF r.ok THEN [kind |-> "tasks", doc |-> r.value]
                              ELSE [kind |-> "error", message |-> r.message]
    /\ pc' = "done"
    /\ UNCHANGED <<surface, prompt, analysis, answers, requirements, aux, dom,
                   form, fetch, response, file>>

---------------------------------------------------------------------------
(* agent3.py: gap analysis, questions, generation, optional save *)

\* initial_prompt = input(...)
A3ReadDescription ==
    /\ surface = "agent3" /\ pc = "input"
    /\ \E d \in FirstDescriptions : prompt' = d
    /\ pc' = "analyze"
    /\ UNCHANGED <<surface, analysis, answers, requirements, aux, dom, form,
                   fetch, response, wire, shown, file>>

\* Variant of A3Analyze that ends the run when the batch is empty.
A3AnalyzeEndsOnEmptyBatch ==
    /\ surface = "agent3" /\ pc = "analyze"
    /\ \E reply \in Replies(AnalysisDocs("agent3")) :
         LET r == CallAzureOpenAI(reply) IN
         /\ wire' = Posted(Outbound("analyze", [description |-> prompt]), reply, r)
         /\ IF r.ok
            THEN /\ analysis' = r.value
                 /\ shown' = [kind |-> "understood", doc |-> r.value.understood]
                 /\ IF r.value.questions # <<>>
                    THEN /\ pc' = "ask"
                         /\ aux' = [aux EXCEPT !.i = 1, !.described = prompt]
                    ELSE /\ pc' = "done"
                         /\ aux' = [aux EXCEPT !.described = prompt]
            ELSE /\ analysis' = analysis
                 /\ shown' = [kind |-> "traceback", message |-> r.message]
                 /\ pc' = "crashed"
                 /\ aux' = aux
    /\ answers' = EmptyDict
    /\ UNCHANGED <<surface, prompt, requirements, dom, form, fetch, response, file>>

\* analysis = analyze_initial_prompt(initial_prompt); print what was
\* understood; branch on analysis['questions'].  main() has no try: an
\* exception of the call leaves it with a traceback.
A3Analyze ==
    /\ surface = "agent3" /\ pc = "analyze"
    /\ \E reply \in Replies(AnalysisDocs("agent3")) :
         LET r == CallAzureOpenAI(reply) IN
         /\ wire' = Posted(Outbound("analyze", [description |-> prompt]), reply, r)
         /\ IF r.ok
            THEN /\ analysis' = r.value
                 /\ shown' = [kind |-> "understood", doc |-> r.value.understood]
                 /\ IF r.value.questions # <<>>
                    THEN /\ pc' = "ask"
                         /\ aux' = [aux EXCEPT !.i = 1, !.described = prompt]
                    ELSE /\ pc' = "generateDirect"
                         /\ aux' = [aux EXCEPT !.described = prompt]
            ELSE /\ analysis' = analysis
                 /\ shown' = [kind |-> "traceback", message |-> r.message]
                 /\ pc' = "crashed"
                 /\ aux' = aux
    /\ answers' = EmptyDict
    /\ UNCHANGED <<surface, prompt, requirements, dom, form, fetch, response, file>>

\* One turn of the loop over analysis['questions']: print the question,
\* read the answer, store it under the question's id.
A3Ask ==
    /\ surface = "agent3" /\ pc = "ask"
    /\ LET q == analysis.questions[aux.i] IN
       \E t \in AnswerTexts :
         /\ form' = Append(form, t)
         /\ answers' = DictSet(answers, q.id,
                [question |-> q.question, answer |-> t, category |-> q.category])
         /\ shown' = [kind |-> "question", doc |-> [i |-> aux.i, question |-> q.question]]
    /\ IF aux.i = Len(analysis.questions)
       THEN pc' = "generate"
       ELSE pc' = "ask"
    /\ aux' = [aux EXCEPT !.i = aux.i + 1]
    /\ UNCHANGED <<surface, prompt, analysis, requirements, dom, fetch, response,
                   wire, file>>

\* requirements = create_comprehensive_requirements(initial_prompt, answers)
\* (answers is the literal {} on the branch without questions), then
\* display_formatted_requirements(requirements).
A3Generate ==
    /\ surface = "agent3" /\ pc \in {"generate", "generateDirect"}
    /\ \E reply \in Replies(RequirementsDocs) :
         LET r == CallAzureOpenAI(reply)
             passed == IF pc = "generate" THEN answers ELSE EmptyDict IN
         /\ wire' = Posted(Outbound("generate", CombinedPrompt(prompt, passed)),
                           reply, r)
         /\ IF r.ok
            THEN /\ requirements' = r.value
                 /\ shown' = [kind |-> "requirements", doc |-> r.value]
                 /\ pc' = IF pc = "generate" THEN "save" ELSE "done"
            ELSE /\ requirements' = requirements
                 /\ shown' = [kind |-> "traceback", message |-> r.message]
                 /\ pc' = "crashed"
    /\ UNCHANGED <<surface, prompt, analysis, answers, aux, dom, form, fetch,
                   response, file>>

\* Variant of A3Save that writes the analysis document to the file.
A3SaveAnalysis ==
    /\ surface = "agent3" /\ pc = "save"
    /\ \E save \in {"y", "Y", "n", ""} :
         file' = IF save \in {"y", "Y"} THEN JsonText(analysis) ELSE file
    /\ pc' = "done"
    /\ UNCHANGED <<surface, prompt, analysis, answers, requirements, aux, dom,
                   form, fetch, response, wire, shown>>

\* save = input(...); if save.lower() == 'y': json.dump(requirements, f)
A3Save ==
    /\ surface = "agent3" /\ pc = "save"
    /\ \E save \in {"y", "Y", "n", ""} :
         file' = IF save \in {"y", "Y"} THEN JsonText(requirements) ELSE file
    /\ pc' = "done"
    /\ UNCHANGED <<surface, prompt, analysis, answers, requirements, aux, dom,
                   form, fetch, response, wire, shown>>

---------------------------------------------------------------------------
(* agent2.py: analysis, completeness check, follow-up questions, refinement *)

\* As for RequirementsDocs: the refined document may differ from the first.
Agent2Requirements ==
    IF analysis = Null THEN { [website_name |-> "W1"] }
    ELSE { [website_name |-> "W1"], [website_name |-> "W2"] }

Agent2Assessments == { [completeness_score |-> "50", critical_gaps |-> <<"gap">>] }

Agent2Questions ==
    { [follow_up_questions |->
         [i \in 1..n |-> [question |-> <<"Q", i>>, category |-> CategoryOf(i)]]] :
       n \in 0..MaxQuestions }

\* user_prompt = input(...)
A2ReadDescription ==
    /\ surface = "agent2" /\ pc = "input"
    /\ \E d \in FirstDescriptions : prompt' = d
    /\ pc' = "analyze"
    /\ UNCHANGED <<surface, analysis, answers, requirements, aux, dom, form,
                   fetch, response, wire, shown, file>>

\* Variant of A2Analyze that reports a failure and goes on to step 2.
A2AnalyzeGoesOn ==
    /\ surface = "agent2" /\ pc = "analyze"
    /\ \E reply \in Replies(Agent2Requirements) :
         LET r == CallAzureOpenAI(reply) IN
         /\ wire' = Posted(Outbound("analyze", [description |-> prompt]), reply, r)
         /\ IF r.ok
            THEN /\ analysis' = r.value
                 /\ shown' = [kind |-> "requirements", doc |-> r.value]
            ELSE /\ analysis' = analysis
                 /\ shown' = [kind |-> "error", message |-> r.message]
         /\ pc' = "check"
    /\ UNCHANGED <<surface, prompt, answers, requirements, aux, dom, form, fetch,
                   response, file>>

\* Step 1 inside the try: requirements = analyze_website_requirements(
\* user_prompt); display_requirements(requirements).  An exception of any
\* step lands in the except clause, which prints it; main() then returns.
A2Analyze ==
    /\ surface = "agent2" /\ pc = "analyze"
    /\ \E reply \in Replies(Agent2Requirements) :
         LET r == CallAzureOpenAI(reply) IN
         /\ wire' = Posted(Outbound("analyze", [description |-> prompt]), reply, r)
         /\ IF r.ok
            THEN /\ analysis' = r.value
                 /\ shown' = [kind |-> "requirements", doc |-> r.value]
                 /\ pc' = "check"
            ELSE /\ analysis' = analysis
                 /\ shown' = [kind |-> "error", message |-> r.message]
                 /\ pc' = "done"
    /\ UNCHANGED <<surface, prompt, answers, requirements, aux, dom, form, fetch,
                   response, file>>

\* Step 2: assessment = check_requirements_completeness(requirements)
A2Check ==
    /\ surface = "agent2" /\ pc = "check"
    /\ \E reply \in Replies(Agent2Assessments) :
         LET r == CallAzureOpenAI(reply) IN
         /\ wire' = Posted(Outbound("check", [requirements |-> analysis]), reply, r)
         /\ IF r.ok
            THEN /\ aux' = [aux EXCEPT !.assessment = r.value]
                 /\ shown' = [kind |-> "assessment", doc |-> r.value]
                 /\ pc' = "questions"
            ELSE /\ aux' = aux
                 /\ shown' = [kind |-> "error", message |-> r.message]
                 /\ pc' = "done"
    /\ UNCHANGED <<surface, prompt, analysis, answers, requirements, dom, form,
                   fetch, response, file>>

\* Step 3: questions = generate_follow_up_questions(requirements, assessment)
A2Questions ==
    /\ surface = "agent2" /\ pc = "questions"
    /\ \E reply \in Replies(Agent2Questions) :
         LET r == CallAzureOpenAI(reply) IN
         /\ wire' = Posted(Outbound("questions",
                        [requirements |-> analysis, assessment |-> aux.assessment]),
                        reply, r)
         /\ IF r.ok
            THEN /\ aux' = [aux EXCEPT !.questions = r.value]
                 /\ shown' = [kind |-> "questions", doc |-> r.value]
                 /\ pc' = "refine"
            ELSE /\ aux' = aux
                 /\ shown' = [kind |-> "error", message |-> r.message]
                 /\ pc' = "done"
    /\ UNCHANGED <<surface, prompt, analysis, answers, requirements, dom, form,
                   fetch, response, file>>

\* Variant of A2Refine that refines unless the user answers n.
A2RefineUnlessNo ==
    /\ surface = "agent2" /\ pc = "refine"
    /\ \E refine \in {"y", "Y", "n", ""} :
         IF refine # "n"
         THEN /\ answers' = EmptyDict
              /\ aux' = [aux EXCEPT !.i = 1, !.refine = refine]
              /\ pc' = IF aux.questions.follow_up_questions = <<>>
                       THEN "reanalyze" ELSE "ask"
         ELSE /\ answers' = answers
              /\ aux' = [aux EXCEPT !.refine = refine]
              /\ pc' = "done"
    /\ UNCHANGED <<surface, prompt, analysis, requirements, dom, form, fetch,
                   response, wire, shown, file>>

\* Step 4: refine = input(...); on 'y' start collecting answers.
A2Refine ==
    /\ surface = "agent2" /\ pc = "refine"
    /\ \E refine \in {"y", "Y", "n", ""} :
         IF refine \in {"y", "Y"}
         THEN /\ answers' = EmptyDict
              /\ aux' = [aux EXCEPT !.i = 1, !.refine = refine]
              /\ pc' = IF aux.questions.follow_up_questions = <<>>
                       THEN "reanalyze" ELSE "ask"
         ELSE /\ answers' = answers
              /\ aux' = [aux EXCEPT !.refine = refine]
              /\ pc' = "done"
    /\ UNCHANGED <<surface, prompt, analysis, requirements, dom, form, fetch,
                   response, wire, shown, file>>

\* One turn of the loop: answers[f"q{i}"] = input("Your answer: ")
A2Ask ==
    /\ surface = "agent2" /\ pc = "ask"
    /\ \E t \in AnswerTexts :
         /\ form' = Append(form, t)
         /\ answers' = DictSet(answers, <<"q", aux.i>>, t)
    /\ pc' = IF aux.i = Len(aux.questions.follow_up_questions)
             THEN "reanalyze" ELSE "ask"
    /\ aux' = [aux EXCEPT !.i = aux.i + 1]
    /\ UNCHANGED <<surface, prompt, analysis, requirements, dom, fetch, response,
                   wire, shown, file>>

\* refined_requirements = analyze_website_requirements(refined_prompt)
A2Reanalyze ==
    /\ surface = "agent2" /\ pc = "reanalyze"
    /\ \E reply \in Replies(Agent2Requirements) :
         LET r == CallAzureOpenAI(reply) IN
         /\ wire' = Posted(Outbound("analyze",
                        [description |-> prompt, answers |-> answers]), reply, r)
         /\ IF r.ok
            THEN /\ requirements' = r.value
                 /\ shown' = [kind |-> "requirements", doc |-> r.value]
            ELSE /\ requirements' = requirements
                 /\ shown' = [kind |-> "error", message |-> r.message]
    /\ pc' = "done"
    /\ UNCHANGED <<surface, prompt, analysis, answers, aux, dom, form, fetch,
                   response, file>>

---------------------------------------------------------------------------
(* app.py, app3.py: the Flask handlers *)

\* request.json of a POST whose JSON body is not an object (a list, null).
NotAnObject == [array |-> <<>>]
IsObject(body) == "array" \notin DOMAIN body

\* data.get(key, default)
Get(body, key, default) == IF key \in DOMAIN body THEN body[key] ELSE default

\* What Flask answers when a view raises: status 500 and a page that is
\* not the view's JSON (json is Null).
InternalServerError == [status |-> 500, json |-> Null]

\* Variant of AnalyzeRoute that caps the batch at one question.
AnalyzeRouteCapped(body, reply) ==
    IF ~IsObject(body) THEN InternalServerError
    ELSE LET r == CallAzureOpenAI(reply) IN
         IF r.ok
         THEN [status |-> 200,
               json |-> [r.value EXCEPT !.questions =
                           IF Len(@) > 1 THEN SubSeq(@, 1, 1) ELSE @]]
         ELSE [status |-> 500, json |-> [error |-> r.message]]

\* analyze(): data.get(...) runs before the try block, so a body without
\* .get is Flask's error; the 200 response carries the parsed document,
\* the except clause answers {'error': str(e)} with status 500.
AnalyzeRoute(body, reply) ==
    IF ~IsObject(body) THEN InternalServerError
    ELSE LET r == CallAzureOpenAI(reply) IN
         IF r.ok THEN [status |-> 200, json |-> r.value]
                 ELSE [status |-> 500, json |-> [error |-> r.message]]

\* Variant of GenerateRoute that answers only after some earlier request.
GenerateRouteAfterAnalyze(body, reply) ==
    IF ~IsObject(body) THEN InternalServerError
    ELSE IF wire.sent = 0
    THEN [status |-> 500, json |-> [error |-> <<"no analysis">>]]
    ELSE LET r == CallAzureOpenAI(reply) IN
         IF r.ok THEN [status |-> 200, json |-> r.value]
                 ELSE [status |-> 500, json |-> [error |-> r.message]]

\* generate(): as analyze(), for create_comprehensive_requirements.
GenerateRoute(body, reply) ==
    IF ~IsObject(body) THEN InternalServerError
    ELSE LET r == CallAzureOpenAI(reply) IN
         IF r.ok THEN [status |-> 200, json |-> r.value]
                 ELSE [status |-> 500, json |-> [error |-> r.message]]

\* The server handles the POST in flight: one completion call (none when
\* the view fails before its try block), one response.
ServeAnalyze ==
    /\ fetch # Null /\ fetch.route = "/analyze"
    /\ \E reply \in Replies(AnalysisDocsSent(surface)) :
         /\ wire' = IF IsObject(fetch.body)
                    THEN Posted(Outbound("analyze",
                             [description |-> Get(fetch.body, "prompt", <<>>)]),
                             reply, CallAzureOpenAI(reply))
                    ELSE wire
         /\ response' = AnalyzeRoute(fetch.body, reply)
    /\ fetch' = Null
    /\ UNCHANGED <<surface, pc, prompt, analysis, answers, requirements, aux, dom,
                   form, shown, file>>

ServeGenerate ==
    /\ fetch # Null /\ fetch.route = "/generate"
    /\ \E reply \in Replies(RequirementsDocsSent) :
         /\ wire' = IF IsObject(fetch.body)
                    THEN Posted(Outbound("generate",
                             CombinedPrompt(Get(fetch.body, "prompt", <<>>),
                                            Get(fetch.body, "answers", EmptyDict))),
                             reply, CallAzureOpenAI(reply))
                    ELSE wire
         /\ response' = GenerateRoute(fetch.body, reply)
    /\ fetch' = Null
    /\ UNCHANGED <<surface, pc, prompt, analysis, answers, requirements, aux, dom,
                   form, shown, file>>

---------------------------------------------------------------------------
(* An HTTP client other than the page, posting to the routes directly *)

\* The JSON bodies it posts: the shape the page posts, an object without
\* the members, and a body that is not an object.
\* An answer mapping with the entries of questions i and j, inserted in that
\* order.
TwoAnswers(i, j) ==
    LET answer(k) == [question |-> <<"Q", k>>, answer |-> <<"x">>,
                      category |-> CategoryOf(k)]
    IN  DictSet(DictSet(EmptyDict, <<"q", i>>, answer(i)), <<"q", j>>, answer(j))

HttpBodies(route) ==
    IF route = "/analyze"
    THEN { [prompt |-> <<"a">>], [prompt |-> <<>>], [other |-> <<>>], NotAnObject }
    ELSE { [prompt |-> <<"a">>, answers |-> EmptyDict], [prompt |-> <<"a">>],
           [prompt |-> <<"a">>, answers |-> TwoAnswers(1, 2)],
           [prompt |-> <<"a">>, answers |-> TwoAnswers(2, 1)],
           NotAnObject }

\* One request at a time, in any order of the two routes.
HttpPost ==
    /\ surface = "http" /\ fetch = Null /\ response = Null
    /\ aux.fetches < MaxFetches
    /\ \E route \in {"/analyze", "/generate"} :
         \E body \in HttpBodies(route) : fetch' = [route |-> route, body |-> body]
    /\ aux' = [aux EXCEPT !.fetches = aux.fetches + 1]
    /\ UNCHANGED <<surface, pc, prompt, analysis, answers, requirements, dom,
                   form, response, wire, shown, file>>

\* The client takes the response; the backend stub's record of the request
\* it was sent in this exchange (none when the view made no call) is kept
\* for comparison with the next.
HttpReceive ==
    /\ surface = "http" /\ response # Null
    /\ response' = Null
    /\ shown' = [kind |-> "seen", doc |-> wire.last]
    /\ wire' = Consumed
    /\ UNCHANGED <<surface, pc, prompt, analysis, answers, requirements, aux, dom,
                   form, fetch, file>>

---------------------------------------------------------------------------
(* app.py, app3.py: the page's script *)

\* if (data.error): the reply object has a truthy error member.
HasError(data) == "error" \in DOMAIN data

\* The input element displayAnalysis renders for a question: a textarea in
\* app.py; in app3.py radio buttons, checkboxes or a select, and nothing
\* for any other input_type.
RenderedInput(s, q) ==
    IF s = "app" THEN "textarea"
    ELSE IF q.input_type = "radio" THEN "radio"
    ELSE IF q.input_type = "checkbox" THEN "checkbox"
    ELSE IF q.input_type = "dropdown" THEN "select"
    ELSE "none"

\* Variant of RenderQuestions that shows the most critical question first.
RenderQuestionsSorted(s, batch) ==
    LET n == Len(batch)
        Rank(i) == 1 + Cardinality({ j \in 1..n :
                        \/ batch[j].critical_level > batch[i].critical_level
                        \/ /\ batch[j].critical_level = batch[i].critical_level
                           /\ j < i })
        At(k) == CHOOSE i \in 1..n : Rank(i) = k
    IN  [k \in 1..n |->
            [id |-> batch[At(k)].id, question |-> batch[At(k)].question,
             category |-> batch[At(k)].category,
             input |-> RenderedInput(s, batch[At(k)]),
             options |-> batch[At(k)].options]]

\* questionsContent after displayAnalysis: one block per question, in the
\* order of analysis.questions.
RenderQuestions(s, batch) ==
    [i \in 1..Len(batch) |->
        [id |-> batch[i].id, question |-> batch[i].question,
         category |-> batch[i].category, input |-> RenderedInput(s, batch[i]),
         options |-> batch[i].options]]

Defaults(q) == { o \in 1..Len(q.options) : q.options[o].default }

Max(S) == CHOOSE x \in S : \A y \in S : y <= x

\* Radio buttons named question-<id> form one group over the whole page,
\* and a group keeps only the last radio carrying the checked attribute.
SameGroup(rendered, i, j) ==
    /\ rendered[i].input = "radio" /\ rendered[j].input = "radio"
    /\ rendered[i].id = rendered[j].id

\* The state of the inputs right after rendering: per question the set of
\* checked / selected options (app3.py) or the textarea's text (app.py).
InitialForm(s, rendered) ==
    [i \in 1..Len(rendered) |->
        LET q == rendered[i] IN
        IF s = "app" THEN <<>>
        ELSE IF q.input = "checkbox" THEN Defaults(q)
        ELSE IF q.input = "select"
             THEN IF q.options = <<>> THEN {}
                  ELSE IF Defaults(q) # {} THEN {Max(Defaults(q))} ELSE {1}
        ELSE IF q.input = "radio"
             THEN IF \E j \in (i + 1)..Len(rendered) :
                        SameGroup(rendered, i, j) /\ Defaults(rendered[j]) # {}
                  THEN {}
                  ELSE IF Defaults(q) # {} THEN {Max(Defaults(q))} ELSE {}
        ELSE {}]

\* currentAnalysis.questions.find(q => q.id === questionId)
FindQuestion(batch, id) ==
    batch[CHOOSE i \in 1..Len(batch) :
            /\ batch[i].id = id
            /\ \A j \in 1..(i - 1) : batch[j].id # id]

\* question.options.find(o => o.id === optionId): the first option of
\* that id, or undefined (Null).
FindOption(q, oid) ==
    IF \E o \in 1..Len(q.options) : q.options[o].id = oid
    THEN q.options[CHOOSE o \in 1..Len(q.options) :
                     /\ q.options[o].id = oid
                     /\ \A p \in 1..(o - 1) : q.options[p].id # oid]
    ELSE Null

\* The checked inputs of one kind, in document order: <<question, option>>.
RECURSIVE SetToSeq(_)
SetToSeq(S) ==
    IF S = {} THEN <<>>
    ELSE LET m == CHOOSE x \in S : \A y \in S : x <= y IN <<m>> \o SetToSeq(S \ {m})

RECURSIVE CheckedFrom(_, _, _, _)
CheckedFrom(rendered, f, kind, i) ==
    IF i > Len(rendered) THEN <<>>
    ELSE (IF rendered[i].input = kind
          THEN [k \in 1..Cardinality(f[i]) |-> <<i, SetToSeq(f[i])[k]>>]
          ELSE <<>>)
         \o CheckedFrom(rendered, f, kind, i + 1)

Checked(rendered, f, kind) == CheckedFrom(rendered, f, kind, 1)

\* The select elements, in document order, with the value of each: the id
\* of its selected option, "" when it has none.
RECURSIVE SelectsFrom(_, _, _)
SelectsFrom(rendered, f, i) ==
    IF i > Len(rendered) THEN <<>>
    ELSE (IF rendered[i].input = "select"
          THEN << [id |-> rendered[i].id,
                   value |-> IF f[i] = {} THEN ""
                             ELSE rendered[i].options[Max(f[i])].id] >>
          ELSE <<>>)
         \o SelectsFrom(rendered, f, i + 1)

Entry(q, text) == [question |-> q.question, answer |-> text, category |-> q.category]

\* Array.prototype.join(', ')
RECURSIVE Join(_)
Join(texts) ==
    IF texts = <<>> THEN <<>>
    ELSE IF Len(texts) = 1 THEN <<texts[1]>>
    ELSE <<texts[1], ", ">> \o Join(Tail(texts))

TypeError == [ok |-> FALSE, exc |-> "TypeError", message |-> <<"undefined has no text">>]

\* forEach over the checked radios: answers[questionId] = {..option.text..}
RECURSIVE CollectRadios(_, _, _)
CollectRadios(batch, inputs, acc) ==
    IF ~acc.ok \/ inputs = <<>> THEN acc
    ELSE LET el == batch[Head(inputs)[1]]
             question == FindQuestion(batch, el.id)
             option == FindOption(question, el.options[Head(inputs)[2]].id)
         IN IF option = Null THEN TypeError
            ELSE CollectRadios(batch, Tail(inputs),
                   Ok(DictSet(acc.value, el.id, Entry(question, <<option.text>>))))

\* forEach over the checked checkboxes: checkboxGroups[questionId].answer
\* gets option.text pushed; the group keeps the first question found.
RECURSIVE CollectCheckboxes(_, _, _)
CollectCheckboxes(batch, inputs, acc) ==
    IF ~acc.ok \/ inputs = <<>> THEN acc
    ELSE LET el == batch[Head(inputs)[1]]
             question == FindQuestion(batch, el.id)
             option == FindOption(question, el.options[Head(inputs)[2]].id)
             had == IF HasKey(acc.value, el.id) THEN Lookup(acc.value, el.id).answer
                    ELSE <<>>
         IN IF option = Null THEN TypeError
            ELSE CollectCheckboxes(batch, Tail(inputs),
                   Ok(DictSet(acc.value, el.id,
                        Entry(question, Append(had, option.text)))))

\* Object.entries(checkboxGroups).forEach: answers[questionId] gets the
\* group with its texts joined.
RECURSIVE MergeGroups(_, _)
MergeGroups(groups, acc) ==
    IF groups = <<>> THEN acc
    ELSE MergeGroups(Tail(groups),
           DictSet(acc, Head(groups).key,
                   [Head(groups).value EXCEPT !.answer = Join(@)]))

\* forEach over the selects: answers[questionId] = {..option.text..}
RECURSIVE CollectSelects(_, _, _)
CollectSelects(batch, selects, acc) ==
    IF ~acc.ok \/ selects = <<>> THEN acc
    ELSE LET question == FindQuestion(batch, Head(selects).id)
             option == FindOption(question, Head(selects).value)
         IN IF option = Null THEN TypeError
            ELSE CollectSelects(batch, Tail(selects),
                   Ok(DictSet(acc.value, Head(selects).id,
                              Entry(question, <<option.text>>))))

\* app3.py generateRequirements, up to the fetch: the answers object built
\* from the radios, then the checkboxes, then the selects, or a TypeError.
CollectChoices(batch, rendered, f) ==
    LET radios == CollectRadios(batch, Checked(rendered, f, "radio"), Ok(EmptyDict))
        groups == CollectCheckboxes(batch, Checked(rendered, f, "checkbox"),
                                    Ok(EmptyDict))
    IN IF ~radios.ok THEN radios
       ELSE IF ~groups.ok THEN groups
       ELSE CollectSelects(batch, SelectsFrom(rendered, f, 1),
                           Ok(MergeGroups(groups.value, radios.value)))

\* app.py generateRequirements, up to the fetch: forEach over the
\* textareas, keeping the answers that are not empty once trimmed.
RECURSIVE CollectTexts(_, _, _, _)
CollectTexts(rendered, f, i, acc) ==
    IF i > Len(rendered) THEN acc
    ELSE LET answer == Trim(f[i]) IN
         CollectTexts(rendered, f, i + 1,
            IF answer # <<>>
            THEN DictSet(acc, rendered[i].id, Entry(rendered[i], answer))
            ELSE acc)

CollectAnswers(s, batch, rendered, f) ==
    IF s = "app" THEN Ok(CollectTexts(rendered, f, 1, EmptyDict))
    ELSE CollectChoices(batch, rendered, f)

\* A button can be clicked when it and the step that holds it are shown.
CanClickAnalyze == surface \in Browser /\ dom.step1 /\ dom.analyzeBtn

\* Variant of CanClickGenerate for a button that stays shown while loading.
CanClickGenerateWhileLoading == surface \in Browser /\ dom.step2

CanClickGenerate == surface \in Browser /\ dom.step2 /\ dom.generateBtn
CanClickBack == surface \in Browser /\ dom.step3
CanClickDownload == surface \in Browser /\ dom.step3

\* analyzePrompt, up to the await: the description is the trimmed text of
\* the prompt box; an empty one is refused with an alert.
AnalyzeClick ==
    /\ CanClickAnalyze
    /\ \E d \in IF aux.fetches = 0 THEN FirstDescriptions ELSE Descriptions :
         /\ prompt' = Trim(d)
         /\ IF Trim(d) = <<>>
            THEN /\ shown' = [kind |-> "alert",
                              message |-> <<"Please describe your website first.">>]
                 /\ UNCHANGED <<pc, dom, fetch, aux>>
            ELSE /\ aux.fetches < MaxFetches
                 /\ dom' = [dom EXCEPT !.analyzeBtn = FALSE, !.analyzeLoader = TRUE]
                 /\ fetch' = [route |-> "/analyze", body |-> [prompt |-> Trim(d)]]
                 /\ pc' = "awaitAnalyze"
                 /\ aux' = [aux EXCEPT !.fetches = aux.fetches + 1]
                 /\ shown' = Null
    /\ UNCHANGED <<surface, analysis, answers, requirements, form, response,
                   wire, file>>

\* analyzePrompt, after the await: a reply with an error member goes to the
\* catch block; any other becomes currentAnalysis and is displayed.
AnalyzeContinue ==
    /\ surface \in Browser /\ pc = "awaitAnalyze" /\ response # Null
    /\ LET data == response.json IN
       IF HasError(data)
       THEN /\ shown' = [kind |-> "alert",
                         message |-> <<"Error analyzing your request. Please try again.">>]
            /\ dom' = [dom EXCEPT !.analyzeBtn = TRUE, !.analyzeLoader = FALSE]
            /\ UNCHANGED <<analysis, form>>
       ELSE /\ analysis' = data
            /\ dom' = [dom EXCEPT !.understood = data.understood,
                                  !.questions = RenderQuestions(surface, data.questions),
                                  !.step1 = FALSE, !.step2 = TRUE]
            /\ form' = InitialForm(surface, RenderQuestions(surface, data.questions))
            /\ shown' = shown
    /\ aux' = IF HasError(response.json) THEN aux
              ELSE [aux EXCEPT !.described = wire.last.payload.description]
    /\ pc' = "idle"
    /\ response' = Null
    /\ wire' = Consumed
    /\ UNCHANGED <<surface, prompt, answers, requirements, fetch, file>>

\* The user types into the textarea of question i (app.py).
EditAnswer ==
    /\ surface = "app" /\ dom.step2 /\ pc = "idle"
    /\ \E i \in 1..Len(form), t \in AnswerTexts :
         /\ form[i] # t
         /\ form' = [form EXCEPT ![i] = t]
    /\ UNCHANGED <<surface, pc, prompt, analysis, answers, requirements, aux, dom,
                   fetch, response, wire, shown, file>>

\* The user picks radio o of question i (app3.py): every other radio of
\* its group is unchecked.
PickRadio ==
    /\ surface = "app3" /\ dom.step2 /\ pc = "idle"
    /\ \E i \in 1..Len(form) :
         /\ dom.questions[i].input = "radio"
         /\ \E o \in 1..Len(dom.questions[i].options) :
              /\ form[i] # {o}
              /\ form' = [j \in 1..Len(form) |->
                            IF j = i THEN {o}
                            ELSE IF SameGroup(dom.questions, i, j) THEN {}
                            ELSE form[j]]
    /\ UNCHANGED <<surface, pc, prompt, analysis, answers, requirements, aux, dom,
                   fetch, response, wire, shown, file>>

\* The user checks or unchecks checkbox o of question i (app3.py).
ToggleCheckbox ==
    /\ surface = "app3" /\ dom.step2 /\ pc = "idle"
    /\ \E i \in 1..Len(form) :
         /\ dom.questions[i].input = "checkbox"
         /\ \E o \in 1..Len(dom.questions[i].options) :
              form' = [form EXCEPT ![i] = IF o \in @ THEN @ \ {o} ELSE @ \cup {o}]
    /\ UNCHANGED <<surface, pc, prompt, analysis, answers, requirements, aux, dom,
                   fetch, response, wire, shown, file>>

\* The user selects option o in the dropdown of question i (app3.py).
SelectOption ==
    /\ surface = "app3" /\ dom.step2 /\ pc = "idle"
    /\ \E i \in 1..Len(form) :
         /\ dom.questions[i].input = "select"
         /\ \E o \in 1..Len(dom.questions[i].options) :
              /\ form[i] # {o}
              /\ form' = [form EXCEPT ![i] = {o}]
    /\ UNCHANGED <<surface, pc, prompt, analysis, answers, requirements, aux, dom,
                   fetch, response, wire, shown, file>>

\* generateRequirements, up to the await: collect the answers from the
\* inputs (a TypeError there leaves the function before its try block),
\* hide the button, POST the description and the answers.
GenerateClick ==
    /\ CanClickGenerate
    /\ LET got == CollectAnswers(surface, analysis.questions, dom.questions, form) IN
       IF got.ok
       THEN /\ aux.fetches < MaxFetches
            /\ dom' = [dom EXCEPT !.generateBtn = FALSE, !.generateLoader = TRUE]
            /\ fetch' = [route |-> "/generate",
                         body |-> [prompt |-> prompt, answers |-> got.value]]
            /\ pc' = "awaitGenerate"
            /\ aux' = [aux EXCEPT !.fetches = aux.fetches + 1]
            /\ shown' = Null
       ELSE /\ shown' = [kind |-> "uncaught", message |-> got.message]
            /\ UNCHANGED <<dom, fetch, pc, aux>>
    /\ UNCHANGED <<surface, prompt, analysis, answers, requirements, form, response,
                   wire, file>>

\* Variant of GenerateContinue that renders the document without keeping
\* it.
GenerateContinueRenderOnly ==
    /\ surface \in Browser /\ pc = "awaitGenerate" /\ response # Null
    /\ LET data == response.json IN
       IF HasError(data)
       THEN /\ shown' = [kind |-> "alert",
                 message |-> <<"Error generating your website plan. Please try again.">>]
            /\ dom' = [dom EXCEPT !.generateBtn = TRUE, !.generateLoader = FALSE]
            /\ requirements' = requirements
       ELSE /\ requirements' = requirements
            /\ dom' = [dom EXCEPT !.requirements = data,
                                  !.step2 = FALSE, !.step3 = TRUE]
            /\ shown' = shown
    /\ pc' = "idle"
    /\ response' = Null
    /\ wire' = Consumed
    /\ UNCHANGED <<surface, prompt, analysis, answers, aux, form, fetch, file>>

\* generateRequirements, after the await.
GenerateContinue ==
    /\ surface \in Browser /\ pc = "awaitGenerate" /\ response # Null
    /\ LET data == response.json IN
       IF HasError(data)
       THEN /\ shown' = [kind |-> "alert",
                 message |-> <<"Error generating your website plan. Please try again.">>]
            /\ dom' = [dom EXCEPT !.generateBtn = TRUE, !.generateLoader = FALSE]
            /\ requirements' = requirements
       ELSE /\ requirements' = data
            /\ dom' = [dom EXCEPT !.requirements = data,
                                  !.step2 = FALSE, !.step3 = TRUE]
            /\ shown' = shown
    /\ pc' = "idle"
    /\ response' = Null
    /\ wire' = Consumed
    /\ UNCHANGED <<surface, prompt, analysis, answers, aux, form, fetch, file>>

\* Variant of GoBackToQuestions that returns to the description step.
GoBackToStart ==
    /\ CanClickBack
    /\ dom' = [dom EXCEPT !.step3 = FALSE, !.step1 = TRUE,
                          !.analyzeBtn = TRUE, !.analyzeLoader = FALSE]
    /\ UNCHANGED <<surface, pc, prompt, analysis, answers, requirements, aux, form,
                   fetch, response, wire, shown, file>>

\* goBackToQuestions
GoBackToQuestions ==
    /\ CanClickBack
    /\ dom' = [dom EXCEPT !.step3 = FALSE, !.step2 = TRUE,
                          !.generateBtn = TRUE, !.generateLoader = FALSE]
    /\ UNCHANGED <<surface, pc, prompt, analysis, answers, requirements, aux, form,
                   fetch, response, wire, shown, file>>

\* downloadRequirements: nothing without a document, else the document
\* as JSON text in a file.
DownloadRequirements ==
    /\ CanClickDownload
    /\ file' = IF requirements = Null THEN file ELSE JsonText(requirements)
    /\ file' # file
    /\ UNCHANGED <<surface, pc, prompt, analysis, answers, requirements, aux, dom,
                   form, fetch, response, wire, shown>>

---------------------------------------------------------------------------
Next ==
    \/ AgentReadDescription
    \/ AgentCall
    \/ A3ReadDescription
    \/ A3Analyze
    \/ A3Ask
    \/ A3Generate
    \/ A3Save
    \/ A2ReadDescription
    \/ A2Analyze
    \/ A2Check
    \/ A2Questions
    \/ A2Refine
    \/ A2Ask
    \/ A2Reanalyze
    \/ ServeAnalyze
    \/ ServeGenerate
    \/ HttpPost
    \/ HttpReceive
    \/ AnalyzeClick
    \/ AnalyzeContinue
    \/ EditAnswer
    \/ PickRadio
    \/ ToggleCheckbox
    \/ SelectOption
    \/ GenerateClick
    \/ GenerateContinue
    \/ GoBackToQuestions
    \/ DownloadRequirements

Spec == Init /\ [][Next]_vars

\* The console program runs on as long as it has a next statement: input()
\* returns once the user responds.
A3Run == A3ReadDescription \/ A3Analyze \/ A3Ask \/ A3Generate \/ A3Save

Fairness == WF_vars(A3Run)

FairSpec == Spec /\ Fairness

---------------------------------------------------------------------------
(* The workflow as the specification names it *)

Console == {"agent", "agent2", "agent3"}
GapSurfaces == {"agent3", "app", "app3"}

\* The generation call has been issued: the page has posted to /generate,
\* or the latest completion request is the generation stage's.
GenerationIssued ==
    \/ fetch # Null /\ fetch.route = "/generate"
    \/ wire.last # Null /\ wire.last.stage = "generate"

\* The description and the answer mapping that call carries.
IssuedDescription ==
    IF fetch # Null THEN fetch.body.prompt ELSE wire.last.payload.description

IssuedAnswers ==
    IF fetch # Null THEN fetch.body.answers ELSE wire.last.payload.answers

\* Question i was put to the user with an input that takes an answer.
HasInput(i) ==
    IF surface \in Browser
    THEN \/ dom.questions[i].input = "textarea"
         \/ /\ dom.questions[i].input \in {"radio", "checkbox", "select"}
            /\ dom.questions[i].options # <<>>
    ELSE i <= Len(form)

\* The user gave no answer to question i.
Unanswered(i) ==
    IF surface = "app3" THEN form[i] = {}
    ELSE IF surface = "app" THEN Trim(form[i]) = <<>>
    ELSE form[i] = <<>>

\* The mapping d has an entry for question q.
HasEntryFor(d, q) ==
    \E k \in 1..Len(d) : d[k].key = q.id /\ d[k].value.question = q.question

CanSubmitDescription == IF surface \in Browser THEN CanClickAnalyze ELSE pc = "input"

CanTriggerGeneration ==
    IF surface \in Browser THEN CanClickGenerate
    ELSE pc \in {"generate", "generateDirect"}

\* The handler of a failed analysis (generation) call has just finished.
AfterFailedAnalysis ==
    IF surface \in Browser
    THEN /\ pc = "idle" /\ shown # Null
         /\ shown.message = <<"Error analyzing your request. Please try again.">>
    ELSE wire.last # Null /\ wire.last.stage = "analyze" /\ ~wire.result.ok

AfterFailedGeneration ==
    IF surface \in Browser
    THEN /\ pc = "idle" /\ shown # Null
         /\ shown.message = <<"Error generating your website plan. Please try again.">>
    ELSE wire.last # Null /\ wire.last.stage = "generate" /\ ~wire.result.ok

---------------------------------------------------------------------------
(* Claims *)

\* C1: in the gap-analysis variants a non-empty batch brings the workflow
\* to the questions, and when the generation call is issued every question
\* of the batch has been put to the user with an input that takes an answer.
C1_OpportunityToAnswerAll ==
    surface \in GapSurfaces /\ analysis # Null =>
        /\ (surface = "agent3" /\ Len(form) < Len(analysis.questions)
               => pc = "ask")
        /\ (surface \in Browser /\ analysis.questions # <<>>
               => dom.step2 \/ dom.step3)
        /\ (GenerationIssued
               => \A i \in 1..Len(analysis.questions) : HasInput(i))

\* C2: with an empty batch no answer is requested, the workflow is ready
\* to generate at once, and the generation call carries the description
\* given to the analysis and an empty answer mapping.
C2_EmptyBatchStraightToGeneration ==
    surface \in GapSurfaces /\ analysis # Null /\ analysis.questions = <<>> =>
        /\ form = <<>>
        /\ (surface = "agent3" => pc \in {"generateDirect", "done", "crashed"})
        /\ (surface \in Browser =>
              /\ dom.questions = <<>>
              /\ (pc = "idle" /\ dom.step2 => CanClickGenerate))
        /\ (GenerationIssued =>
              /\ IssuedDescription = aux.described
              /\ IssuedAnswers = EmptyDict
              /\ (wire.last # Null /\ wire.last.stage = "generate" =>
                    /\ wire.last.payload.description = aux.described
                    /\ wire.last.payload.answers = EmptyDict))

C2_Witness ==
    /\ surface \in GapSurfaces /\ analysis # Null /\ analysis.questions = <<>>
    /\ wire.last # Null /\ wire.last.stage = "generate"

\* C3: when the generation call is issued, a question the user gave no
\* answer to has no entry in the answer mapping the call carries.
C3_UnansweredOmitted ==
    surface \in GapSurfaces /\ GenerationIssued =>
        \A i \in 1..Len(analysis.questions) :
            Unanswered(i) => ~HasEntryFor(IssuedAnswers, analysis.questions[i])

\* The texts of the options selected for question i, in the order shown.
SelectedTexts(i) ==
    [k \in 1..Cardinality(form[i]) |->
        dom.questions[i].options[SetToSeq(form[i])[k]].text]

\* "A, B": the texts with the separator ", " between neighbours.
CommaSeparated(texts) ==
    [k \in 1..(2 * Len(texts) - 1) |->
        IF k % 2 = 1 THEN texts[(k + 1) \div 2] ELSE ", "]

\* C4: for a checkbox question with a selection, the answer value the
\* generation call carries is the selected options' texts, in the order
\* shown, joined by ", ".
C4_MultiChoiceFlattened ==
    surface = "app3" /\ GenerationIssued =>
        \A i \in 1..Len(dom.questions) :
            dom.questions[i].input = "checkbox" /\ form[i] # {} =>
                \E k \in 1..Len(IssuedAnswers) :
                    /\ IssuedAnswers[k].key = dom.questions[i].id
                    /\ IssuedAnswers[k].value.answer = CommaSeparated(SelectedTexts(i))

\* C5: after a failed analysis call the workflow is in Start: no analysis
\* is held or shown, no generation call is issued, and a description can
\* be submitted again.
C5_FailedAnalysisBackInStart ==
    surface \in GapSurfaces /\ AfterFailedAnalysis =>
        /\ analysis = Null
        /\ (surface \in Browser =>
               dom.understood = Null /\ dom.questions = <<>> /\ ~dom.step2)
        /\ ~(fetch # Null /\ fetch.route = "/generate")
        /\ CanSubmitDescription

\* C6: after a failed generation call the workflow is in ReadyToGenerate:
\* no document came of the attempt, the description is still the one
\* analysed, and generation can be triggered again.
C6_FailedGenerationBackInReady ==
    surface \in GapSurfaces /\ AfterFailedGeneration =>
        /\ (surface = "agent3" => requirements = Null)
        /\ (surface \in Browser => dom.requirements = requirements /\ dom.step2)
        /\ prompt = aux.described
        /\ analysis # Null
        /\ CanTriggerGeneration

\* C7: an error of a completion call is caught by the surface and told to
\* the user (printed by the console programs, answered as {error} with
\* status 500 by the handlers); no surface dies of an unhandled exception.
C7_ErrorsCaughtAtTopLevel ==
    /\ pc # "crashed"
    /\ (wire.result # Null /\ ~wire.result.ok =>
          IF surface \in Console
          THEN shown = [kind |-> "error", message |-> wire.result.message]
          ELSE response = [status |-> 500,
                           json |-> [error |-> wire.result.message]])

\* C8: a reply with a status other than 200 makes the client fail with an
\* error whose detail is the reply's body text; a reply with status 200
\* makes it return the message content (the parsed document in JSON mode,
\* the text itself in agent.py).
C8_ClientResultFollowsStatus ==
    wire.reply # Null =>
        /\ (wire.reply.status # 200 =>
              /\ ~wire.result.ok
              /\ wire.result.message[Len(wire.result.message)] = wire.reply.text)
        /\ (wire.reply.status = 200 /\ surface = "agent" =>
              wire.result.ok /\ wire.result.value = wire.reply.content)
        /\ (wire.reply.status = 200 /\ surface # "agent" /\ wire.reply.content.parses =>
              wire.result.ok /\ wire.result.value = wire.reply.content.value)

C8_Witness ==
    /\ wire.reply # Null /\ wire.reply.status # 200
    /\ ~wire.result.ok /\ surface # "agent"

\* The document variable the stage of the latest request writes.
StageOutput ==
    IF wire.last.stage = "generate" THEN requirements
    ELSE IF wire.last.stage = "check" THEN aux.assessment
    ELSE IF wire.last.stage = "questions" THEN aux.questions
    ELSE IF "answers" \in DOMAIN wire.last.payload THEN requirements
    ELSE analysis

BadJsonReply ==
    /\ surface # "agent" /\ wire.reply # Null
    /\ wire.reply.status = 200 /\ ~wire.reply.content.parses

\* C9: a JSON-mode reply with status 200 whose content does not parse
\* makes the client fail; the stage's document is not set from it and the
\* next stage is not started.
C9_BadJsonEndsTheStage ==
    /\ [](BadJsonReply =>
            /\ ~wire.result.ok
            /\ (surface \in Console => StageOutput = Null /\ pc \in {"done", "crashed"})
            /\ (surface \in Browser => response # Null /\ HasError(response.json)))
    /\ [][BadJsonReply =>
            /\ wire'.sent = wire.sent
            /\ analysis' = analysis /\ requirements' = requirements
            /\ aux'.assessment = aux.assessment /\ aux'.questions = aux.questions
            /\ dom'.step1 = dom.step1 /\ dom'.step2 = dom.step2
            /\ dom'.step3 = dom.step3
            /\ fetch' = Null]_vars

C9_Witness == BadJsonReply /\ wire.last.stage \in {"generate", "check"}

\* C10: every completion call sends exactly one request, a POST of the page
\* leads to exactly one call, and after a failed request no further one is
\* sent unless the user clicks again (the console programs send none).
C10_OneRequestPerCall ==
    /\ [](surface \in Browser =>
            wire.sent + (IF fetch # Null THEN 1 ELSE 0) = aux.fetches)
    /\ [][/\ wire'.sent \in {wire.sent, wire.sent + 1}
          /\ (surface \in Browser /\ wire'.sent # wire.sent =>
                 fetch # Null /\ fetch' = Null)
          /\ (surface \in Browser /\ fetch = Null /\ fetch' # Null =>
                 /\ pc = "idle" /\ response = Null
                 /\ \/ fetch'.route = "/analyze" /\ CanClickAnalyze
                    \/ fetch'.route = "/generate" /\ CanClickGenerate)
          /\ (surface \in Console /\ wire.result # Null /\ ~wire.result.ok =>
                 wire'.sent = wire.sent)]_vars

C10_Witness ==
    /\ surface \in Browser /\ wire.sent = 2
    /\ wire.last # Null /\ wire.last.stage = "analyze" /\ ~wire.result.ok

\* A POST of the page is outstanding: sent and its continuation not yet run.
Outstanding == fetch # Null \/ response # Null

\* C11: in the gap-analysis workflow at most one request is outstanding:
\* while one is, the page is awaiting it, neither stage button can be
\* clicked and no further POST is issued; the generation request is issued
\* only with the analysis held, that is after the analysis request returned
\* successfully.
C11_OneRequestAtATime ==
    /\ [](surface \in GapSurfaces =>
            /\ (Outstanding => pc \in {"awaitAnalyze", "awaitGenerate"})
            /\ (pc \in {"awaitAnalyze", "awaitGenerate"} =>
                  /\ Outstanding
                  /\ ~(dom.step1 /\ dom.analyzeBtn)
                  /\ ~(dom.step2 /\ dom.generateBtn))
            /\ (GenerationIssued \/ pc = "awaitGenerate" => analysis # Null))
    /\ [][(surface \in GapSurfaces /\ Outstanding) =>
            (/\ aux'.fetches = aux.fetches
             /\ (fetch # Null => fetch' = fetch \/ fetch' = Null)
             /\ (fetch = Null => fetch' = Null))]_vars

C11_Witness ==
    surface \in Browser /\ pc = "awaitGenerate" /\ fetch # Null /\ aux.fetches = 2

\* C12: every response of /analyze and /generate is either status 200 with
\* the parsed backend document, for a request that succeeded, or status
\* 500 with a JSON body {error: message}, for one that did not.
C12_TwoKindsOfResponse ==
    response # Null =>
        \/ /\ response.status = 200
           /\ wire.result # Null /\ wire.result.ok
           /\ response.json = wire.reply.content.value
        \/ /\ response.status = 500
           /\ response.json # Null /\ DOMAIN response.json = {"error"}
           /\ ~(wire.result # Null /\ wire.result.ok)

C14_GeneratedIsTerminal ==
    [][(surface \in GapSurfaces /\ requirements # Null) =>
        (/\ wire'.sent = wire.sent
         /\ aux'.fetches = aux.fetches
         /\ dom'.step1 = dom.step1 /\ dom'.step2 = dom.step2
         /\ pc' \in {pc, "done"})]_vars

\* C14, amended: in agent3.py nothing follows the generated document but
\* the optional save.  In the browser clients the page can go back from the
\* document to the questions, with the answers and the description kept
\* and the generate button enabled, and generate again on a click; the
\* description step is never shown again and the analysis is never re-run.
C14_GeneratedThenSaveOrBack ==
    [][(surface \in GapSurfaces /\ requirements # Null) =>
        (/\ analysis' = analysis
         /\ requirements' # Null
         /\ ~(fetch' # Null /\ fetch'.route = "/analyze")
         /\ (surface = "agent3" =>
               /\ wire' = wire /\ requirements' = requirements
               /\ pc = "save" /\ pc' = "done")
         /\ (surface \in Browser =>
               /\ ~dom'.step1
               /\ (dom.step3 /\ ~dom'.step3 =>
                     /\ dom'.step2 /\ dom'.generateBtn
                     /\ form' = form /\ prompt' = prompt
                     /\ aux'.fetches = aux.fetches /\ wire' = wire)
               /\ (aux'.fetches # aux.fetches =>
                     /\ dom.step2 /\ dom.generateBtn
                     /\ fetch' # Null /\ fetch'.route = "/generate")))]_vars

\* The page generates again after going back from a generated document.
C14_Witness ==
    /\ surface \in Browser /\ requirements # Null
    /\ pc = "awaitGenerate" /\ fetch # Null

\* C15: in agent3.py every run that generates a document, on either path,
\* goes on to offer saving it, and a file exists only as the saved
\* document of a run that offered it.
C15_EveryGeneratedRunOffersSave ==
    /\ [](surface = "agent3" /\ file # Null => file = JsonText(requirements))
    /\ [][(surface = "agent3" /\ requirements = Null /\ requirements' # Null)
            => pc' = "save"]_vars
    /\ [][(surface = "agent3" /\ file' # file) => pc = "save"]_vars

\* C16: the question batch the workflow holds has at most 5 questions,
\* pairwise distinct ids, every critical_level in 1..5, and levels that do
\* not rise along the batch.
C16_BatchWellFormed ==
    surface \in GapSurfaces /\ analysis # Null =>
        LET b == analysis.questions IN
        /\ Len(b) <= 5
        /\ \A i \in 1..Len(b) : b[i].critical_level \in 1..5
        /\ \A i, j \in 1..Len(b) :
              i < j => /\ b[i].id # b[j].id
                       /\ b[i].critical_level >= b[j].critical_level

\* C16, amended: the question batch the workflow holds is the questions
\* list of the backend's reply, member for member and in its order,
\* whatever its ids and levels are.
C16_BatchIsTheReplysList ==
    /\ [](surface = "agent3" /\ wire.last # Null /\ wire.last.stage = "analyze"
            /\ wire.result.ok
            => analysis.questions = wire.reply.content.value.questions)
    /\ [][(surface \in Browser /\ pc = "awaitAnalyze" /\ response # Null
            /\ wire.reply.status = 200 /\ wire.reply.content.parses
            /\ "error" \notin DOMAIN wire.reply.content.value)
            => (/\ analysis' # Null
                /\ analysis'.questions = wire.reply.content.value.questions)]_vars

\* The page holds a batch with a repeated id and rising levels.
C16_Witness ==
    /\ surface \in Browser /\ analysis # Null /\ Len(analysis.questions) = 2
    /\ analysis.questions[1].id = analysis.questions[2].id
    /\ analysis.questions[1].critical_level < analysis.questions[2].critical_level

\* C17: the questions are presented in the order of the returned batch:
\* the page shows one block per question of the batch, block i for question
\* i, and agent3.py asks question i as its i-th question, each once.
C17_PresentedInReturnedOrder ==
    /\ (surface \in Browser /\ analysis # Null =>
          /\ Len(dom.questions) = Len(analysis.questions)
          /\ \A i \in 1..Len(analysis.questions) :
                /\ dom.questions[i].id = analysis.questions[i].id
                /\ dom.questions[i].question = analysis.questions[i].question)
    /\ (surface = "agent3" /\ analysis # Null =>
          /\ Len(form) <= Len(analysis.questions)
          /\ (pc = "ask" => aux.i = Len(form) + 1)
          /\ (pc \in {"generate", "save"} => Len(form) = Len(analysis.questions))
          /\ (shown # Null /\ shown.kind = "question" =>
                /\ shown.doc.i = Len(form)
                /\ shown.doc.question = analysis.questions[Len(form)].question))

\* A batch whose levels rise is on the page, or has been asked to its end.
C17_Witness ==
    /\ surface \in {"app", "agent3"} /\ analysis # Null
    /\ Len(analysis.questions) = 2 /\ Len(form) = 2
    /\ analysis.questions[1].critical_level < analysis.questions[2].critical_level
    /\ analysis.questions[1].id # analysis.questions[2].id

C19_StagesInOrder ==
    /\ [](surface = "agent2" /\ wire.last # Null =>
            /\ (wire.sent = 1 => wire.last.stage = "analyze")
            /\ (wire.sent = 1 /\ wire.result.ok => analysis = wire.result.value)
            /\ (wire.last.stage = "check" =>
                  /\ wire.sent = 2 /\ analysis # Null
                  /\ wire.last.payload = [requirements |-> analysis]
                  /\ (wire.result.ok => aux.assessment = wire.result.value))
            /\ (wire.last.stage = "questions" =>
                  /\ wire.sent = 3 /\ analysis # Null /\ aux.assessment # Null
                  /\ wire.last.payload =
                       [requirements |-> analysis, assessment |-> aux.assessment])
            /\ (~wire.result.ok => pc = "done"))
    /\ [][(surface = "agent2" /\ wire.result # Null /\ ~wire.result.ok)
            => wire' = wire]_vars

C19_Witness ==
    /\ surface = "agent2" /\ wire.last # Null
    /\ wire.last.stage = "questions" /\ wire.result.ok

\* C20: a run of agent2.py sends at most four requests; the fourth is the
\* re-analysis with the answers, made only after the user accepted the
\* refinement (y or Y), and nothing is sent or asked after it.
C20_OneRefinementOnRequest ==
    /\ [](surface = "agent2" =>
            /\ wire.sent <= 4
            /\ (pc \in {"ask", "reanalyze"} => aux.refine \in {"y", "Y"})
            /\ (wire.sent = 4 =>
                  /\ aux.refine \in {"y", "Y"}
                  /\ wire.last.stage = "analyze"
                  /\ wire.last.payload = [description |-> prompt, answers |-> answers]
                  /\ pc = "done"))
    /\ [][(surface = "agent2" /\ wire.sent = 4) => UNCHANGED vars]_vars

C20_Witness ==
    /\ surface = "agent2" /\ wire.sent = 4 /\ wire.result.ok
    /\ requirements # Null /\ answers # EmptyDict

---------------------------------------------------------------------------
(* Same answers, same request *)

\* Two mappings hold the same question-id/answer pairs, in whatever order.
SamePairs(a, b) ==
    /\ Len(a) = Len(b)
    /\ { a[i] : i \in 1..Len(a) } = { b[i] : i \in 1..Len(b) }

\* The generation request of the previous exchange and the one of this
\* exchange, both seen by the backend stub.
TwoGenerationsSeen ==
    /\ surface = "http"
    /\ shown # Null /\ shown.doc # Null /\ shown.doc.stage = "generate"
    /\ wire.last # Null /\ wire.last.stage = "generate"

\* C21: when generation is called twice with the same description and the
\* same set of question-id/answer pairs, in any key order, the backend is
\* sent the same request both times.
C21_SameMappingSameRequest ==
    (/\ TwoGenerationsSeen
     /\ shown.doc.payload.description = wire.last.payload.description
     /\ SamePairs(shown.doc.payload.answers, wire.last.payload.answers))
    => wire.last.payload = shown.doc.payload

---------------------------------------------------------------------------
(* The persisted document *)

\* The document is on display: printed by the console program, rendered
\* in the results step by the page.
Displayed(doc) ==
    IF surface = "agent3"
    THEN shown # Null /\ shown.kind = "requirements" /\ shown.doc = doc
    ELSE dom.step3 /\ dom.requirements = doc

\* What the file's text gives when it is parsed back.
ParsedBack(text) == text.value

\* C22: the document persisted on request (the console's file save, the
\* browser's download), parsed back, equals the RequirementsDocument that
\* generation returned and that is displayed; nothing changes the
\* document between generation, display and serialization.
C22_SavedIsGeneratedAndShown ==
    /\ [][(surface \in GapSurfaces /\ requirements' # requirements)
           => requirements' = (IF surface = "agent3"
                               THEN wire'.reply.content.value
                               ELSE wire.reply.content.value)]_vars
    /\ [][(file' # file)
           => (/\ file'.parses
               /\ ParsedBack(file') = requirements
               /\ requirements' = requirements
               /\ Displayed(requirements))]_vars

\* The console program has saved the generated document.
C22_Witness ==
    /\ surface = "agent3" /\ pc = "done" /\ file # Null
    /\ ParsedBack(file) = requirements

---------------------------------------------------------------------------
(* The description through the two stages *)

\* C23: in the gap-analysis workflow the description handed to generation
\* is exactly the description that was submitted to (and accepted by) the
\* analysis stage, from the client's request to the backend's.
C23_GenerationGetsAnalysedDescription ==
    (surface \in GapSurfaces /\ GenerationIssued) =>
        /\ analysis # Null
        /\ IssuedDescription = aux.described
        /\ (surface \in Browser => prompt = aux.described)

\* A generation request with answers has reached the backend from the page.
C23_Witness ==
    /\ surface \in Browser /\ wire.last # Null /\ wire.last.stage = "generate"
    /\ analysis # Null /\ analysis.questions # <<>>
    /\ wire.last.payload.answers # EmptyDict
    /\ aux.described # <<>>
    /\ wire.last.payload.description = aux.described

---------------------------------------------------------------------------
(* Two calls to the generated document *)

\* A completion call of this run has failed.
CallFailed == wire.result # Null /\ ~wire.result.ok

\* C24: when every completion call succeeds and the user responds at every
\* prompt, the gap-analysis workflow of agent3.py reaches Generated, after
\* exactly two completion calls, with an empty batch as with a non-empty
\* one: the analysis and the requirements document are each the product
\* of exactly one call.
C24_TwoCallsToGenerated ==
    /\ [](surface = "agent3" /\ requirements # Null =>
            analysis # Null /\ wire.sent = 2)
    /\ [][(surface = "agent3" /\ analysis' # analysis)
           => (wire.sent = 0 /\ wire'.sent = 1
               /\ analysis' = wire'.reply.content.value)]_vars
    /\ [][(surface = "agent3" /\ requirements' # requirements)
           => (wire.sent = 1 /\ wire'.sent = 2
               /\ requirements' = wire'.reply.content.value)]_vars
    /\ (surface = "agent3" ~> (requirements # Null \/ CallFailed))

\* The console run with an empty batch has generated with two calls.
C24_Witness ==
    /\ surface = "agent3" /\ pc = "done" /\ requirements # Null
    /\ analysis.questions = <<>> /\ wire.sent = 2

---------------------------------------------------------------------------
(* One entry per question *)

\* C25: once agent3 has asked the whole batch, the answer mapping has
\* exactly one entry per question, keyed by the question's id and holding
\* that question's text and category and the answer the user gave to it:
\* no answer is lost or attached to another question, also when two
\* questions of the batch have the same id.
C25_OneEntryPerQuestion ==
    (surface = "agent3" /\ pc \in {"generate", "save"}) =>
        /\ Len(answers) = Len(analysis.questions)
        /\ \A i \in 1..Len(analysis.questions) :
              LET q == analysis.questions[i] IN
              /\ HasKey(answers, q.id)
              /\ Lookup(answers, q.id) =
                    [question |-> q.question, answer |-> form[i],
                     category |-> q.category]

---------------------------------------------------------------------------
(* What the page takes for a failure *)

\* The page's handler takes the response of its request.
PageTakesResponse == surface \in Browser /\ response # Null /\ response' = Null

\* The page stays in the step it was in and tells the user of an error.
LeavesStepWithAlert ==
    /\ dom'.step1 = dom.step1 /\ dom'.step2 = dom.step2 /\ dom'.step3 = dom.step3
    /\ analysis' = analysis /\ requirements' = requirements
    /\ shown' # Null /\ shown'.kind = "alert"

\* The page takes the reply's document and shows the next step.
MovesForward ==
    IF pc = "awaitAnalyze"
    THEN analysis' = response.json /\ dom'.step2 /\ ~dom'.step1
    ELSE requirements' = response.json /\ dom'.step3 /\ ~dom'.step2

\* C26: the page treats a reply as a failure exactly when the server
\* answered with status 500: every successful document, whatever keys the
\* backend put in it, moves the workflow forward, and every failure
\* leaves the step as it was.
C26_FailureExactlyOnStatus500 ==
    [][PageTakesResponse =>
         (IF response.status = 500 THEN LeavesStepWithAlert ELSE MovesForward)]_vars

---------------------------------------------------------------------------
(* The document behind the results step *)

\* C27: whenever the page shows the results step, the document it holds is
\* not null, is the document of the most recent successful generation, is
\* the one rendered and is the one a download emits; a download before any
\* successful generation emits nothing.
C27_ResultsStepHoldsTheDocument ==
    /\ [](surface \in Browser /\ dom.step3 =>
            /\ requirements # Null /\ dom.requirements = requirements
            /\ pc = "idle" /\ fetch = Null /\ response = Null)
    /\ [](surface \in Browser /\ requirements = Null => file = Null)
    /\ [][(surface \in Browser /\ ~dom.step3 /\ dom'.step3) =>
            (/\ pc = "awaitGenerate" /\ response # Null /\ response.status = 200
             /\ requirements' = response.json
             /\ requirements' = wire.reply.content.value)]_vars
    /\ [][(surface \in Browser /\ dom.step3) =>
            (requirements' = requirements /\ wire' = wire)]_vars
    /\ [][(surface \in Browser /\ file' # file) =>
            (dom.step3 /\ file'.parses /\ file'.value = requirements)]_vars

\* The page shows the second document it generated, and it was downloaded.
C27_Witness ==
    /\ surface \in Browser /\ dom.step3 /\ aux.fetches = 3
    /\ requirements = RequirementsDoc("N2")
    /\ file # Null /\ file.value = requirements

---------------------------------------------------------------------------
(* Answers from the question's own options *)

\* The texts of the options of question i that are selected in the page.
OwnSelectedTexts(i) ==
    { dom.questions[i].options[o].text : o \in form[i] }

\* The texts an answer value is made of: one text, or several with ", "
\* between them.
TextsOf(value) == { value[k] : k \in { n \in 1..Len(value) : n % 2 = 1 } }

\* C28: in app3.py the answer the generation call carries for a question
\* is built from the texts of that same question's selected options only:
\* for radio buttons and dropdowns exactly one of its option texts, for
\* checkboxes its own selected texts and no others; an option rendered as
\* default and left as it is is part of the answer.
C28_AnswersFromOwnOptions ==
    (surface = "app3" /\ GenerationIssued) =>
        \A i \in 1..Len(dom.questions) :
            LET q == dom.questions[i] IN
            (q.input \in {"radio", "checkbox", "select"} /\ form[i] # {}) =>
                /\ HasKey(IssuedAnswers, q.id)
                /\ LET value == Lookup(IssuedAnswers, q.id).answer IN
                   /\ TextsOf(value) = OwnSelectedTexts(i)
                   /\ (q.input # "checkbox" => Len(value) = 1)

---------------------------------------------------------------------------
(* Where the credential goes *)

\* The text is put together without the credential.
FreeOfKey(text) == \A i \in 1..Len(text) : text[i] # ApiKey

\* C29: the credential goes into the api-key header of the completion
\* request and nowhere else: the request's payload, every message shown
\* to the user, every response body of /analyze and /generate (the
\* reply's document, or an error message) and the saved file are put
\* together without it, so they are the same whatever the credential is.
C29_CredentialOnlyInHeader ==
    /\ (wire.last # Null =>
          /\ wire.last.headers["api-key"] = ApiKey
          /\ wire.last.headers["Content-Type"] # ApiKey
          /\ ("description" \in DOMAIN wire.last.payload =>
                FreeOfKey(wire.last.payload.description)))
    /\ (shown # Null /\ "message" \in DOMAIN shown => FreeOfKey(shown.message))
    /\ (response # Null /\ response.json # Null =>
          IF response.status = 500
          THEN FreeOfKey(response.json.error)
          ELSE response.json = wire.reply.content.value)
    /\ (wire.result # Null =>
          IF wire.result.ok
          THEN wire.result.value = (IF surface = "agent" THEN wire.reply.content
                                    ELSE wire.reply.content.value)
          ELSE FreeOfKey(wire.result.message))
    /\ (file # Null => file.value \in { RequirementsDoc(n) : n \in {"N1", "N2"} })

\* A handler has answered a failed call with the error message.
C29_Witness ==
    /\ surface \in Web /\ response # Null /\ response.status = 500
    /\ response.json # Null /\ wire.last # Null
    /\ wire.last.headers["api-key"] = ApiKey
    /\ response.json.error = <<"Error calling Azure OpenAI API: ", wire.reply.text>>

===========================================================================
